---- MODULE Spec2Model ----
(***************************************************************************)
(* Model of lib/daemon.py: the daemon mainloop (Mainloop.Run), its         *)
(* asyncore-integrated scheduler (AsyncoreScheduler, a sched.scheduler     *)
(* whose delay function is AsyncoreDelayFunction), and the signal          *)
(* checkpoint with its observers (_CallSignalWaiters, RegisterSignal).     *)
(*                                                                         *)
(* Run is modelled as one sequential process whose position is pc.  The    *)
(* only asynchrony is signal delivery (Deliver), which may happen between  *)
(* any two steps of Run, and the passing of time (Tick).  User code        *)
(* (timer callbacks, I/O readiness handlers, OnSignal observers) is        *)
(* modelled by the actions of the "user code" section, enabled while such  *)
(* a callback runs or before Run is called.                                *)
(*                                                                         *)
(* GenericMain, the daemons' shared main function, is a second sequential  *)
(* process, whose options, position, calls and outcome are the record      *)
(* main.                                                                   *)
(***************************************************************************)
EXTENDS Integers, Sequences, FiniteSets, TLC

\* ------------------------------------------------------------------ bounds
MaxTime == 2        \* the clock (time.time) takes the values 0..MaxTime
MaxEvents == 2      \* number of events ever entered in the scheduler
MaxObservers == 2   \* length of the _signal_wait list

\* -------------------------------------------------------- program constants
SIGTERM == 15
SIGCHLD == 17
DefaultTimeout == 30    \* asyncore.loop's timeout when none is given

Signals == {SIGTERM, SIGCHLD}
Channels == {"c1"}
Delays == {0, 1}        \* delays given to scheduler.enter
Priorities == {1, 2}    \* priorities given to scheduler.enter
NoEvent == [id |-> 0, time |-> 0, priority |-> 0]
NoCall == [cause |-> 0, arg |-> 0]

VARIABLES
  pc,             \* position of Run: idle, while, branch, timer_cb, reactor,
                  \*   dispatch, io_cb, signals, notify, observer_cb, clear,
                  \*   done, raised
  running,        \* local variable `running` of Run
  stop_on_empty,  \* argument of Run
  io_wait,        \* attribute self._io_wait: [defined, value]
  signal_wait,    \* attribute self._signal_wait: sequence of owners
  queue,          \* scheduler._queue: set of events [id, time, priority]
  nextId,         \* identity of the next event object created by enter
  now,            \* value returned by time.time
  channels,       \* asyncore.socket_map: registered I/O channels
  ready,          \* channels reported ready by the current poll, not yet served
  passKind,       \* who called asyncore.loop: "delay", "direct"; else "none"
  timeout,        \* timeout argument of the asyncore.loop call in progress
  cur,            \* event whose action is executing (timer_cb)
  curChan,        \* channel whose handler is executing (io_cb)
  called,         \* handler.called of each watched signal (the latch)
  order,          \* iteration order of the signal_handlers dictionary
  sigIdx,         \* position of `for sig in signal_handlers`
  ownerIdx,       \* position of `for owner in self._signal_wait`
  exc,            \* exception that ended Run, or "none"
  obs,            \* observations of the run (history, read by no action guard)
  main            \* the GenericMain call: its options, position, calls and outcome

loopVars == <<pc, running, stop_on_empty, io_wait, signal_wait, queue, nextId, now,
              channels, ready, passKind, timeout, cur, curChan, called, order,
              sigIdx, ownerIdx, exc, obs>>

vars == <<loopVars, main>>

\* ----------------------------------------------------------------- helpers
\* Observation counters count 0, 1, "two or more".
Inc(n) == IF n < 2 THEN n + 1 ELSE 2

Perms(S) == {s \in [1..Cardinality(S) -> S] : \A x \in S : \E i \in DOMAIN s : s[i] = x}

CallbackPcs == {"timer_cb", "io_cb", "observer_cb"}
UserPcs == CallbackPcs \cup {"idle"}
Looping == pc \notin {"idle", "done", "raised"}

sigState == <<called, order, sigIdx, ownerIdx>>
ioState == <<channels, ready, passKind, timeout, curChan>>
schedState == <<queue, nextId, cur>>
runArgs == <<stop_on_empty, io_wait>>

\* ------------------------------------------------------------ construction
\* Mainloop.__init__ assigns _signal_wait and scheduler, and nothing else:
\* the instance has no _io_wait attribute.
MainloopInit ==
  /\ signal_wait = <<>>
  /\ queue = {}
  /\ nextId = 1
  /\ io_wait = [defined |-> FALSE, value |-> {}]

ObsInit ==
  [firedIds |-> {},           \* ids of the events dispatched
   prevFired |-> NoEvent,      \* the event dispatched before the current one
   refired |-> FALSE,          \* an event was dispatched a second time
   cancelled |-> {},           \* ids of the events removed by cancel
   dispatchClock |-> 0,        \* clock read by scheduler.run at the last dispatch
   pendingAtDispatch |-> {},   \* events left in the queue at the last dispatch
   lateCancel |-> FALSE,       \* a callback cancelled an event already due
   lastCall |-> NoCall,        \* last OnSignal call: latched signal and argument
   calls |-> [i \in 1..MaxObservers |-> 0], \* OnSignal calls of this round
   roundLen |-> 0,             \* registrations when the latch was last tested
   roundOver |-> FALSE,        \* this signal's processing at the checkpoint ended
   since |-> [s \in Signals |-> 0],  \* deliveries since the latch was last tested
   burst |-> 0,                \* deliveries between the last two tests of a latch
   owed |-> [s \in Signals |-> FALSE], \* delivered, no round begun since
   termDelivered |-> FALSE,    \* SIGTERM was delivered during Run
   itersAfterTerm |-> 0,       \* iterations begun since the first SIGTERM
   termSeen |-> FALSE,         \* the SIGTERM latch was found set at this checkpoint
   passes |-> 0,               \* reactor passes of the current iteration
   startedEmpty |-> FALSE,     \* stop-on-empty Run called with no channel, no event
   startChannels |-> {},       \* channels registered when stop-on-empty Run was called
   selfUnreg |-> FALSE,        \* a handler unregistered its own channel
   starved |-> FALSE,          \* a callback was dispatched, no reactor pass since
   fires |-> 0,                \* callbacks dispatched since the last checkpoint
   dueLeft |-> FALSE,          \* an event due at the dispatch is left to wait
   passOf |-> "none",          \* caller of the pass that just ended
   broke |-> FALSE,            \* that pass ended in a SchedulerBreakout
   raised |-> FALSE]           \* user code raised during the current pass or round

\* GenericMain has not been called.
NoMain ==
  [pc |-> "idle", ssl |-> "absent", cert |-> "empty", key |-> "empty",
   fork |-> FALSE, check |-> FALSE, calls |-> <<>>, reported |-> FALSE,
   pidHeld |-> FALSE, pending |-> "none", exit |-> "none"]

\* The state Run starts from, but for the Mainloop's attributes.
InitRest ==
  /\ pc = "idle"
  /\ running = FALSE
  /\ stop_on_empty = FALSE
  /\ now = 0
  /\ ready = {}
  /\ passKind = "none"
  /\ timeout = 0
  /\ cur = NoEvent
  /\ curChan = "none"
  /\ called = [s \in Signals |-> FALSE]
  /\ order = <<SIGCHLD, SIGTERM>>
  /\ sigIdx = 1
  /\ ownerIdx = 1
  /\ exc = "none"
  /\ obs = ObsInit

\* A new Mainloop in a process with no I/O channel registered.
Init ==
  /\ MainloopInit
  /\ channels = {}
  /\ InitRest
  /\ main = NoMain

\* --------------------------------------------------------------- scheduler
\* sched.scheduler.enter: the event's time is timefunc() + delay.
Enter(q, id, t, delay, priority) ==
  q \cup {[id |-> id, time |-> t + delay, priority |-> priority]}

\* A scheduler that never finds the head due.
DueNever(e, t) == FALSE

\* A scheduler that dispatches the head whatever the clock reads.
DueAlways(e, t) == TRUE

\* sched.scheduler.run compares the head's time with timefunc(): the event is
\* dispatched when not (now < time), otherwise the delay function is called.
Due(e, t) == ~(t < e.time)

\* The head of the scheduler's queue: the events that no other event
\* precedes in (time, priority) order.  Events equal in both are ordered by
\* their remaining fields, which the program does not control.
Before(a, b) ==
  \/ a.time < b.time
  \/ a.time = b.time /\ a.priority < b.priority

\* A scheduler that dispatches any pending event.
HeadsUnordered(q) == q

Heads(q) == {e \in q : \A f \in q : ~Before(f, e)}

\* sched.scheduler.cancel: list.remove, which raises ValueError when the
\* event is not in the queue.
InQueue(q, id) == \E e \in q : e.id = id

\* A cancel that leaves the event in the queue.
CancelKeeps(q, id) == q

Cancel(q, id) == {e \in q : e.id # id}

\* A scheduler whose run goes on to the next event after an action.
NoDelayAfterAction == FALSE

\* sched.scheduler.run calls the delay function with 0 after every action
\* ("let other threads run").
DelayAfterAction == TRUE

\* A delay function that returns to the scheduler after its pass.
DelayFunctionReturns == "return"

\* AsyncoreDelayFunction ends with `raise SchedulerBreakout()`.
DelayFunctionOutcome == "SchedulerBreakout"

\* An except clause that lets the exception through.
CaughtNever(name) == FALSE

\* `except SchedulerBreakout: pass` around self.scheduler.run() in Run.
Caught(name) == (name = "SchedulerBreakout")

\* ------------------------------------------------------ exception handling
\* An exception leaving user code.  From a timer callback or an observer it
\* leaves Run (nothing in Run or sched catches it).  From an I/O handler it
\* reaches asyncore's dispatch wrapper, which calls the channel's
\* handle_error: that may raise again, close the channel, or just return.
Propagate(name) ==
  IF pc = "io_cb"
  THEN \E outcome \in {"raise", "close", "return"} :
         /\ pc' = IF outcome = "raise" THEN "raised" ELSE "dispatch"
         /\ exc' = IF outcome = "raise" THEN name ELSE exc
         /\ channels' = IF outcome = "close" THEN channels \ {curChan} ELSE channels
         /\ curChan' = IF outcome = "raise" THEN curChan ELSE "none"
  ELSE /\ pc' = "raised"
       /\ exc' = name
       /\ UNCHANGED <<channels, curChan>>

\* --------------------------------------------------------------- user code
\* Code outside the mainloop: the daemon's set-up before Run is called, and
\* the bodies of timer callbacks, I/O handlers and OnSignal observers.

\* The owners that register are distinct objects, named by their order of
\* registration.
NewOwner == Len(signal_wait) + 1

\* A registration that puts the new owner first.
RegisteredFirst(waiters, owner) == <<owner>> \o waiters

\* `self._signal_wait.append(owner)`
Registered(waiters, owner) == Append(waiters, owner)

\* Mainloop.RegisterSignal
RegisterSignal(owner) ==
  /\ pc \in UserPcs
  /\ Len(signal_wait) < MaxObservers
  /\ signal_wait' = Registered(signal_wait, owner)
  /\ UNCHANGED <<pc, running, runArgs, main, schedState, now, ioState, sigState, exc, obs>>

\* mainloop.scheduler.enter(delay, priority, action, argument)
EnterEvent(delay, priority) ==
  /\ nextId <= MaxEvents
  /\ queue' = Enter(queue, nextId, now, delay, priority)
  /\ nextId' = nextId + 1
  /\ UNCHANGED <<pc, running, runArgs, main, signal_wait, cur, now, ioState, sigState,
                 exc, obs>>

SetupEnter(delay, priority) == pc = "idle" /\ EnterEvent(delay, priority)

CallbackEnter(delay, priority) == pc \in CallbackPcs /\ EnterEvent(delay, priority)

\* mainloop.scheduler.cancel(event)
CancelEvent(id) ==
  /\ id \in 1..(nextId - 1)
  /\ IF InQueue(queue, id)
     THEN /\ queue' = Cancel(queue, id)
          /\ obs' = [obs EXCEPT
               !.cancelled = @ \cup {id},
               !.lateCancel = @ \/ (pc \in CallbackPcs
                                      /\ \E e \in queue : e.id = id /\ e.time <= now)]
          /\ UNCHANGED <<pc, exc, channels, curChan>>
     ELSE /\ pc \in CallbackPcs
          /\ Propagate("ValueError")
          /\ obs' = [obs EXCEPT !.raised = TRUE]
          /\ UNCHANGED queue
  /\ UNCHANGED <<running, runArgs, main, signal_wait, nextId, cur, now, ready, passKind,
                 timeout, sigState>>

SetupCancel(id) == pc = "idle" /\ CancelEvent(id)

CallbackCancel(id) == pc \in CallbackPcs /\ CancelEvent(id)

\* A channel is added to asyncore's socket map.
UserAddChannel(c) ==
  /\ pc = "idle"
  /\ c \notin channels
  /\ channels' = channels \cup {c}
  /\ UNCHANGED <<pc, running, runArgs, main, signal_wait, schedState, now, ready,
                 passKind, timeout, curChan, sigState, exc, obs>>

\* A channel is removed from asyncore's socket map (close / del_channel).
UserDelChannel(c) ==
  /\ pc \in UserPcs
  /\ c \in channels
  /\ channels' = channels \ {c}
  /\ obs' = [obs EXCEPT !.selfUnreg = @ \/ (pc = "io_cb" /\ curChan = c)]
  /\ UNCHANGED <<pc, running, runArgs, main, signal_wait, schedState, now, ready,
                 passKind, timeout, curChan, sigState, exc>>

\* A callback, handler or observer raises.
UserRaise ==
  /\ pc \in CallbackPcs
  /\ Propagate("Error")
  /\ obs' = [obs EXCEPT !.raised = TRUE]
  /\ UNCHANGED <<running, runArgs, main, signal_wait, schedState, now, ready, passKind,
                 timeout, sigState>>

\* ---------------------------------------------------------------- Mainloop
\* A loop that any latched signal ends.
RunningAfterAny(sig) == FALSE

\* The value `running` gets after the observers of sig were called.
RunningAfter(sig) == (sig # SIGTERM)

\* The argument _CallSignalWaiters passes to OnSignal when called for signum.
SignalArgument(signum) == SIGCHLD

\* Mainloop.Run is called: the decorators have installed one handler per
\* watched signal and passed them as the signal_handlers dictionary, whose
\* iteration order the program does not choose.
Run(soe, ord) ==
  /\ pc = "idle"
  /\ pc' = "while"
  /\ running' = TRUE
  /\ stop_on_empty' = soe
  /\ order' = ord
  /\ obs' = [obs EXCEPT !.startedEmpty = (soe /\ channels = {} /\ queue = {}),
                        !.startChannels = IF soe THEN channels ELSE {}]
  /\ UNCHANGED <<io_wait, main, signal_wait, schedState, now, ioState, called, sigIdx,
                 ownerIdx, exc>>

\* `while running:` and the stop-on-empty test.  Reading self._io_wait
\* raises AttributeError when the attribute does not exist.
LoopHead ==
  /\ pc = "while"
  /\ IF ~running
     THEN pc' = "done" /\ exc' = exc
     ELSE IF stop_on_empty
          THEN IF ~io_wait.defined
               THEN pc' = "raised" /\ exc' = "AttributeError"
               ELSE IF io_wait.value = {}
                    THEN pc' = "done" /\ exc' = exc
                    ELSE pc' = "branch" /\ exc' = exc
          ELSE pc' = "branch" /\ exc' = exc
  /\ obs' = IF pc' = "branch"
            THEN [obs EXCEPT
                    !.itersAfterTerm = IF obs.termDelivered THEN Inc(@) ELSE @,
                    !.termSeen = FALSE,
                    !.passes = 0,
                    !.burst = 0,
                    !.calls = [i \in 1..MaxObservers |-> 0],
                    !.roundLen = 0,
                    !.roundOver = FALSE]
            ELSE obs
  /\ UNCHANGED <<running, runArgs, main, signal_wait, schedState, now, ioState,
                 sigState>>

\* `if not self.scheduler.empty(): self.scheduler.run()`: run looks at the
\* head of the queue and either dispatches it or calls the delay function
\* with the time left, AsyncoreDelayFunction(time - now).
RunScheduler ==
  /\ pc = "branch"
  /\ queue # {}
  /\ \E e \in Heads(queue) :
       IF Due(e, now)
       THEN /\ queue' = queue \ {e}
            /\ cur' = e
            /\ pc' = "timer_cb"
            /\ obs' = [obs EXCEPT !.firedIds = @ \cup {e.id},
                                  !.refired = @ \/ (e.id \in obs.firedIds),
                                  !.fires = Inc(@),
                                  !.dispatchClock = now,
                                  !.pendingAtDispatch = queue \ {e}]
            /\ UNCHANGED <<passKind, timeout>>
       ELSE /\ pc' = "reactor"
            /\ passKind' = "delay"
            /\ timeout' = e.time - now
            /\ UNCHANGED <<queue, cur, obs>>
  /\ UNCHANGED <<running, runArgs, main, signal_wait, nextId, now, channels, ready,
                 curChan, sigState, exc>>

\* The timer callback returns: sched calls the delay function with 0.  (A
\* scheduler that did not would go on with its `while q:` loop, and run
\* would return once the queue is empty.)
TimerReturn ==
  /\ pc = "timer_cb"
  /\ cur' = NoEvent
  /\ IF DelayAfterAction
     THEN /\ pc' = "reactor"
          /\ passKind' = "delay"
          /\ timeout' = 0
          /\ sigIdx' = sigIdx
     ELSE /\ pc' = IF queue = {} THEN "signals" ELSE "branch"
          /\ sigIdx' = 1
          /\ UNCHANGED <<passKind, timeout>>
  /\ obs' = [obs EXCEPT !.dispatchClock = 0, !.pendingAtDispatch = {},
                        !.lateCancel = FALSE, !.prevFired = cur,
                        !.starved = TRUE,
                        !.dueLeft = \E e \in obs.pendingAtDispatch \cap queue :
                                      Due(e, obs.dispatchClock)]
  /\ UNCHANGED <<running, runArgs, main, signal_wait, queue, nextId, now, channels,
                 ready, curChan, called, order, ownerIdx, exc>>

\* `else: asyncore.loop(count=1, use_poll=True)`
DirectPass ==
  /\ pc = "branch"
  /\ queue = {}
  /\ pc' = "reactor"
  /\ passKind' = "direct"
  /\ timeout' = DefaultTimeout
  /\ UNCHANGED <<running, runArgs, main, signal_wait, schedState, now, channels, ready,
                 curChan, sigState, exc, obs>>

\* asyncore.loop(timeout, count=1): one poll of the registered channels,
\* which reports some of them ready.
Poll ==
  /\ pc = "reactor"
  /\ \E r \in SUBSET channels : ready' = r
  /\ pc' = "dispatch"
  /\ obs' = [obs EXCEPT !.passes = Inc(@), !.starved = FALSE, !.dueLeft = FALSE]
  /\ UNCHANGED <<running, runArgs, main, signal_wait, schedState, now, channels,
                 passKind, timeout, curChan, sigState, exc>>

\* The pass calls the handler of the next ready channel that is still
\* registered.
DispatchIO ==
  /\ pc = "dispatch"
  /\ \E c \in ready :
       /\ ready' = ready \ {c}
       /\ IF c \in channels
          THEN pc' = "io_cb" /\ curChan' = c
          ELSE UNCHANGED <<pc, curChan>>
  /\ UNCHANGED <<running, runArgs, main, signal_wait, schedState, now, channels,
                 passKind, timeout, sigState, exc, obs>>

\* The I/O handler returns.
IoReturn ==
  /\ pc = "io_cb"
  /\ pc' = "dispatch"
  /\ curChan' = "none"
  /\ obs' = [obs EXCEPT !.lateCancel = FALSE]
  /\ UNCHANGED <<running, runArgs, main, signal_wait, schedState, now, channels, ready,
                 passKind, timeout, sigState, exc>>

\* The pass is over.  Called by the delay function, it is followed by
\* `raise SchedulerBreakout()`, which leaves scheduler.run and which Run
\* catches; either way Run goes on to `for sig in signal_handlers`.  (A
\* delay function that returned would hand control back to the scheduler's
\* `while q:` loop.)
PassEnd ==
  /\ pc = "dispatch"
  /\ ready = {}
  /\ sigIdx' = 1
  /\ passKind' = "none"
  /\ timeout' = 0
  /\ IF passKind = "delay" /\ DelayFunctionOutcome = "SchedulerBreakout"
     THEN /\ pc' = IF Caught(DelayFunctionOutcome) THEN "signals" ELSE "raised"
          /\ exc' = IF Caught(DelayFunctionOutcome) THEN exc ELSE DelayFunctionOutcome
     ELSE /\ pc' = IF passKind = "delay" /\ queue # {} THEN "branch" ELSE "signals"
          /\ exc' = exc
  /\ obs' = [obs EXCEPT
       !.passOf = passKind,
       !.broke = (passKind = "delay" /\ DelayFunctionOutcome = "SchedulerBreakout"),
       !.raised = FALSE]
  /\ UNCHANGED <<running, runArgs, main, signal_wait, schedState, now, channels, ready,
                 curChan, called, order, ownerIdx>>

\* ------------------------------------------------------- signal checkpoint
CurSig == order[sigIdx]

\* Run moves to the next key of signal_handlers, or to the loop test when
\* the dictionary is exhausted.
NextSignal ==
  IF sigIdx = Len(order)
  THEN pc' = "while" /\ sigIdx' = sigIdx
  ELSE pc' = "signals" /\ sigIdx' = sigIdx + 1

\* `if handler.called:`
TestLatch ==
  /\ pc = "signals"
  /\ IF called[CurSig]
     THEN pc' = "notify" /\ ownerIdx' = 1 /\ sigIdx' = sigIdx
     ELSE NextSignal /\ ownerIdx' = ownerIdx
  /\ obs' = [obs EXCEPT
       !.burst = obs.since[CurSig],
       !.since[CurSig] = 0,
       !.calls = [i \in 1..MaxObservers |-> 0],
       !.roundLen = Len(signal_wait),
       !.roundOver = ~called[CurSig],
       !.passOf = "none",
       !.broke = FALSE,
       !.fires = 0,
       !.termSeen = @ \/ (CurSig = SIGTERM /\ called[CurSig])]
  /\ UNCHANGED <<running, runArgs, main, signal_wait, schedState, now, ioState, called,
                 order, exc>>

\* _CallSignalWaiters: `for owner in self._signal_wait: owner.OnSignal(...)`
NotifyOwner ==
  /\ pc = "notify"
  /\ ownerIdx <= Len(signal_wait)
  /\ pc' = "observer_cb"
  /\ obs' = [obs EXCEPT
       !.lastCall = [cause |-> CurSig, arg |-> SignalArgument(CurSig)],
       !.calls[ownerIdx] = Inc(@),
       !.owed[CurSig] = IF ownerIdx = 1 THEN FALSE ELSE @]
  /\ UNCHANGED <<running, runArgs, main, signal_wait, schedState, now, ioState,
                 sigState, exc>>

\* OnSignal returns.
ObserverReturn ==
  /\ pc = "observer_cb"
  /\ pc' = "notify"
  /\ ownerIdx' = ownerIdx + 1
  /\ obs' = [obs EXCEPT !.lastCall = NoCall, !.lateCancel = FALSE]
  /\ UNCHANGED <<running, runArgs, main, signal_wait, schedState, now, ioState, called,
                 order, sigIdx, exc>>

\* `running = (sig != signal.SIGTERM)`
SetRunning ==
  /\ pc = "notify"
  /\ ownerIdx > Len(signal_wait)
  /\ running' = RunningAfter(CurSig)
  /\ pc' = "clear"
  /\ ownerIdx' = 1
  /\ obs' = [obs EXCEPT !.owed[CurSig] = IF Len(signal_wait) = 0 THEN FALSE ELSE @]
  /\ UNCHANGED <<runArgs, main, signal_wait, schedState, now, ioState, called, order,
                 sigIdx, exc>>

\* The latch after handler.Clear().
Cleared(latch, sig) == [latch EXCEPT ![sig] = FALSE]

\* `handler.Clear()`
ClearLatch ==
  /\ pc = "clear"
  /\ called' = Cleared(called, CurSig)
  /\ NextSignal
  /\ obs' = [obs EXCEPT !.roundOver = TRUE]
  /\ UNCHANGED <<running, runArgs, main, signal_wait, schedState, now, ioState, order,
                 ownerIdx, exc>>

\* ------------------------------------------------------------- environment
\* The operating system delivers a watched signal: the installed handler
\* sets the latch, between any two steps of Run.
Deliver(sig) ==
  /\ Looping
  /\ called' = [called EXCEPT ![sig] = TRUE]
  /\ obs' = [obs EXCEPT
       !.since[sig] = Inc(@),
       !.owed[sig] = TRUE,
       !.termDelivered = @ \/ (sig = SIGTERM)]
  /\ UNCHANGED <<pc, running, runArgs, main, signal_wait, schedState, now, ioState,
                 order, sigIdx, ownerIdx, exc>>

\* Time passes while the reactor's poll waits and while user code runs.
\* The program reads the clock in enter and at the top of scheduler.run
\* only, so time passing elsewhere is seen as time passed in the poll; the
\* clock reads 0 when Run is called.
Tick ==
  /\ pc \in CallbackPcs \cup {"reactor"}
  /\ now < MaxTime
  /\ now' = now + 1
  /\ UNCHANGED <<pc, running, runArgs, main, signal_wait, schedState, ioState, sigState,
                 exc, obs>>

\* ------------------------------------------------------------- GenericMain
\* The names the module binds with its import statements.
ModuleNames ==
  {"asyncore", "os", "select", "signal", "errno", "logging", "sched", "time",
   "utils", "constants", "errors"}

\* The value of an option naming a file: the empty string, the name of a
\* file that does not exist, the name of an existing file.
FileStates == {"empty", "missing", "file"}

\* The result of optionparser.parse_args(): options.ssl exists only for the
\* daemons of constants.DAEMONS_SSL, and with it ssl_cert and ssl_key.
MainInputs ==
  {m \in [pc : {"ssl"}, ssl : {"absent", "on", "off"}, cert : FileStates,
          key : FileStates, fork : BOOLEAN, check : BOOLEAN, calls : {<<>>},
          reported : {FALSE}, pidHeld : {FALSE}, pending : {"none"},
          exit : {"none"}] :
     m.ssl = "absent" => (m.cert = "empty" /\ m.key = "empty")}

\* `not (options.ssl_cert and options.ssl_key)`, or os.path.isfile fails
\* for one of the two.
SslBad(m) == m.ssl = "on" /\ (m.cert # "file" \/ m.key # "file")

\* A call to a function of the daemon or of utils, outside the try
\* statement: it returns, or raises and ends GenericMain.
CallOut(name, next) ==
  \E outcome \in {"return", "raise"} :
    main' = [main EXCEPT !.calls = Append(@, name),
                         !.pc = IF outcome = "return" THEN next ELSE "end",
                         !.exit = IF outcome = "return" THEN @ ELSE "Error"]

\* The same inside the try statement: an exception leads to the finally
\* clause.
CallInTry(name, next) ==
  \E outcome \in {"return", "raise"} :
    main' = [main EXCEPT !.calls = Append(@, name),
                         !.pc = IF outcome = "return" THEN next ELSE "finally",
                         !.pending = IF outcome = "return" THEN @ ELSE "Error"]

\* `if hasattr(options, 'ssl') and options.ssl:` and its two checks.  The
\* failure branch evaluates sys.stderr, then calls sys.exit: a name the
\* module does not bind raises NameError.
MainSslCheck ==
  /\ main.pc = "ssl"
  /\ main' = IF SslBad(main)
             THEN IF "sys" \in ModuleNames
                  THEN [main EXCEPT !.pc = "end", !.reported = TRUE,
                                    !.exit = "EXIT_FAILURE"]
                  ELSE [main EXCEPT !.pc = "end", !.exit = "NameError"]
             ELSE [main EXCEPT !.pc = "check"]
  /\ UNCHANGED loopVars

\* `if check_fn is not None: check_fn(options, args)`
MainCheck ==
  /\ main.pc = "check"
  /\ IF main.check
     THEN CallOut("check_fn", "dirs")
     ELSE main' = [main EXCEPT !.pc = "dirs"]
  /\ UNCHANGED loopVars

\* `utils.EnsureDirs(dirs)`
MainDirs ==
  /\ main.pc = "dirs"
  /\ CallOut("EnsureDirs", "fork")
  /\ UNCHANGED loopVars

\* `if options.fork: utils.CloseFDs(); utils.Daemonize(...)`
MainFork ==
  /\ main.pc = "fork"
  /\ IF main.fork
     THEN CallOut("Daemonize", "pidfile")
     ELSE main' = [main EXCEPT !.pc = "pidfile"]
  /\ UNCHANGED loopVars

\* `utils.WritePidFile(daemon_name)`, before the try statement.
MainWritePid ==
  /\ main.pc = "pidfile"
  /\ \E outcome \in {"return", "raise"} :
       main' = [main EXCEPT !.calls = Append(@, "WritePidFile"),
                            !.pidHeld = (outcome = "return"),
                            !.pc = IF outcome = "return" THEN "logging" ELSE "end",
                            !.exit = IF outcome = "return" THEN @ ELSE "Error"]
  /\ UNCHANGED loopVars

\* `utils.SetupLogging(...)` and logging.info, first statements of the try.
MainLogging ==
  /\ main.pc = "logging"
  /\ CallInTry("SetupLogging", "exec")
  /\ UNCHANGED loopVars

\* `exec_fn(options, args)`, last statement of the try.
MainExec ==
  /\ main.pc = "exec"
  /\ CallInTry("exec_fn", "finally")
  /\ UNCHANGED loopVars

\* A clean-up that runs only when the try statement's body has returned.
FinallyOnReturn(pending) == (pending = "none")

\* A finally clause runs however the body of its try statement ended.
RunsFinally(pending) == TRUE

\* `finally: utils.RemovePidFile(daemon_name)`, after which a pending
\* exception goes on to GenericMain's caller.
MainFinally ==
  /\ main.pc = "finally"
  /\ main' = [main EXCEPT
       !.calls = IF RunsFinally(main.pending) THEN Append(@, "RemovePidFile") ELSE @,
       !.pidHeld = IF RunsFinally(main.pending) THEN FALSE ELSE @,
       !.pc = "end",
       !.exit = IF main.pending = "none" THEN "return" ELSE main.pending]
  /\ UNCHANGED loopVars

\* ----------------------------------------------------------- specification
LoopSteps ==
  \/ LoopHead
  \/ RunScheduler
  \/ TimerReturn
  \/ DirectPass
  \/ Poll
  \/ DispatchIO
  \/ IoReturn
  \/ PassEnd
  \/ TestLatch
  \/ NotifyOwner
  \/ ObserverReturn
  \/ SetRunning
  \/ ClearLatch

\* A daemon that registers observers and channels, enters at most one timed
\* event before it calls Run, and whose callbacks unregister channels,
\* register observers or raise.  Signals arrive at any point of Run.
Next ==
  \/ RegisterSignal(NewOwner)
  \/ queue = {} /\ \E d \in Delays : SetupEnter(d, 1)
  \/ \E c \in Channels : UserAddChannel(c)
  \/ \E c \in Channels : UserDelChannel(c)
  \/ UserRaise
  \/ \E soe \in BOOLEAN, ord \in Perms(Signals) : Run(soe, ord)
  \/ LoopSteps
  \/ \E sig \in Signals : Deliver(sig)
  \/ Tick

Spec == Init /\ [][Next]_vars

\* A daemon that has registered one signal observer and one I/O channel,
\* and whose timer callbacks, I/O handlers and observers enter and cancel
\* timed events.
InitTimers ==
  /\ queue = {}
  /\ nextId = 1
  /\ io_wait = [defined |-> FALSE, value |-> {}]
  /\ signal_wait = <<1>>
  /\ channels = Channels
  /\ InitRest
  /\ main = NoMain

NextTimers ==
  \/ \E d \in Delays, p \in Priorities : SetupEnter(d, p)
  \/ \E d \in Delays, p \in Priorities : CallbackEnter(d, p)
  \/ \E id \in 1..MaxEvents : SetupCancel(id)
  \/ \E id \in 1..MaxEvents : CallbackCancel(id)
  \/ Run(FALSE, <<SIGCHLD, SIGTERM>>)
  \/ LoopSteps
  \/ Deliver(SIGCHLD)
  \/ Tick

SpecTimers == InitTimers /\ [][NextTimers]_vars

\* A daemon with no I/O channel and no signal observer: it enters timed
\* events, before Run and from its timer callbacks, cancels none, and calls
\* Run(stop_on_empty=False).  No SIGTERM is delivered and no callback
\* raises.  With no channel the poll reports none ready and with no
\* observer the checkpoint notifies none, so no handler is ever called.
LiveSteps ==
  \/ LoopHead
  \/ RunScheduler
  \/ TimerReturn
  \/ DirectPass
  \/ Poll
  \/ PassEnd
  \/ TestLatch
  \/ SetRunning
  \/ ClearLatch

NextLive ==
  \/ \E d \in Delays, p \in Priorities : SetupEnter(d, p)
  \/ \E d \in Delays, p \in Priorities : CallbackEnter(d, p)
  \/ Run(FALSE, <<SIGCHLD, SIGTERM>>)
  \/ LiveSteps
  \/ Deliver(SIGCHLD)
  \/ Tick

\* Run is a sequential program that the interpreter keeps executing, and
\* callbacks return: its next step is eventually taken.  The clock is
\* time.time: it advances whatever the program does, so the reactor passes
\* that see it advance recur until it has.
SpecLive ==
  /\ Init
  /\ [][NextLive]_vars
  /\ WF_vars(LiveSteps)
  /\ SF_vars(Tick)

\* GenericMain called for any daemon, with any options, directories and
\* functions.
InitMain ==
  /\ MainloopInit
  /\ channels = {}
  /\ InitRest
  /\ main \in MainInputs

NextMain ==
  \/ MainSslCheck
  \/ MainCheck
  \/ MainDirs
  \/ MainFork
  \/ MainWritePid
  \/ MainLogging
  \/ MainExec
  \/ MainFinally

SpecMain == InitMain /\ [][NextMain]_vars

\* ------------------------------------------------------------------ claims
QueuedIds == {e.id : e \in queue}

\* C1: with stop_on_empty false, once SIGTERM has been delivered Run begins
\* at most one more iteration, and it returns only at an iteration boundary:
\* with no callback running, no ready channel unserved and the whole
\* signal checkpoint done.
C1_TermEndsRunWithinOneIteration ==
  ~stop_on_empty =>
    /\ obs.itersAfterTerm <= 1
    /\ pc = "done" =>
         /\ cur = NoEvent
         /\ curChan = "none"
         /\ ready = {}
         /\ sigIdx = Len(order)

\* C2: when the SIGTERM latch was found set at a checkpoint, running is
\* false when the loop condition is next evaluated, whatever the other
\* latches and the order of inspection.
C2_RunningFalseAfterTerm ==
  (pc = "while" /\ obs.termSeen) => ~running

\* C3: every OnSignal call made for a latched signal passes that signal's
\* own number.
C3_OnSignalGetsOwnNumber ==
  pc = "observer_cb" => obs.lastCall.arg = obs.lastCall.cause

\* C4: when a signal was delivered two or more times between two
\* consecutive inspections of its latch, the second inspection's checkpoint
\* calls OnSignal exactly once for each observer registered.
C4_OneNotificationPerBurst ==
  (obs.roundOver /\ obs.burst >= 2) =>
    \A i \in 1..obs.roundLen : obs.calls[i] = 1

\* C5: while Run loops and goes on looping, a delivery that no round of
\* notifications to the registered observers has followed keeps its latch
\* set: clearing the latch never erases it.
C5_DeliveryNeverErased ==
  \A s \in Signals :
    (Looping /\ running /\ Len(signal_wait) > 0 /\ obs.owed[s]) => called[s]

\* C6: Run(stop_on_empty=True) with no channel registered and an empty timer
\* queue returns normally at its first loop test, with no reactor pass.
C6_StopOnEmptyReturnsAtOnce ==
  (obs.startedEmpty /\ pc \notin {"idle", "while"}) =>
    /\ pc = "done"
    /\ exc = "none"
    /\ obs.passes = 0

\* C7: Run(stop_on_empty=True) with one channel registered evaluates the
\* stop test at every iteration without failing, and returns normally, at
\* the loop test, once the channel has unregistered itself.
C7_StopOnEmptyAfterUnregister ==
  (stop_on_empty /\ obs.startChannels = Channels) =>
    /\ exc # "AttributeError"
    /\ pc = "done" => channels = {}
    /\ (pc = "branch" /\ obs.selfUnreg) => channels # {}

\* C8 as stated: callbacks are dispatched in non-decreasing fire_time order
\* and, among equal fire_times, in increasing priority, for any sequence of
\* Enter calls: no event is dispatched right after one that it precedes in
\* (fire_time, priority) order.
C8_DispatchInTimeThenPriorityOrder ==
  (pc = "timer_cb" /\ obs.prevFired # NoEvent) => ~Before(cur, obs.prevFired)

\* C8 amended: callbacks are dispatched in non-decreasing fire_time order,
\* and the event dispatched is one that no event pending at that moment
\* precedes in (fire_time, priority) order.
C8_DispatchOrder ==
  pc = "timer_cb" =>
    /\ obs.prevFired # NoEvent => obs.prevFired.time <= cur.time
    /\ \A f \in obs.pendingAtDispatch : ~Before(f, cur)

\* Of two events of equal fire_time pending together, the one entered last,
\* with the lower priority value, was dispatched first.
C8_Witness ==
  /\ pc = "timer_cb"
  /\ obs.prevFired # NoEvent
  /\ obs.prevFired.time = cur.time
  /\ obs.prevFired.priority < cur.priority
  /\ cur.id < obs.prevFired.id

\* C9: when a timer callback is dispatched, the clock read by the scheduler
\* is at or after the event's fire_time.
C9_NeverFiresEarly ==
  pc = "timer_cb" => (obs.dispatchClock >= cur.time /\ now >= cur.time)

\* The first event dispatched has a fire_time after the time Run was called
\* at: the scheduler waited for it, in one reactor pass or more.
C9_Witness ==
  /\ pc = "timer_cb"
  /\ obs.prevFired = NoEvent
  /\ cur.time > 0
  /\ obs.dispatchClock = cur.time

\* C10: a cancelled event never fires, and every event entered is in
\* exactly one of these: pending, dispatched (once), cancelled.
C10_CancelledNeverFires ==
  /\ obs.firedIds \cap obs.cancelled = {}
  /\ QueuedIds \cap (obs.firedIds \cup obs.cancelled) = {}
  /\ ~obs.refired
  /\ \A id \in 1..(nextId - 1) : id \in QueuedIds \cup obs.firedIds \cup obs.cancelled
  /\ Cardinality(QueuedIds) = Cardinality(queue)
  /\ cur # NoEvent => cur.id \in obs.firedIds

\* A callback cancelled an event whose fire_time had passed, after another
\* event was dispatched.
C10_Witness ==
  /\ pc \in CallbackPcs
  /\ obs.lateCancel
  /\ obs.firedIds # {}
  /\ obs.cancelled # {}

\* C11: I/O is not starved by a saturated timer queue: no timer callback is
\* dispatched while the previous dispatch has not been followed by a reactor
\* pass, and the pass that follows a dispatch is made by the delay function
\* with timeout 0.
C11_PassBetweenDispatches ==
  /\ pc = "timer_cb" => ~obs.starved
  /\ (pc = "reactor" /\ obs.starved) => (passKind = "delay" /\ timeout = 0)
  /\ (pc = "signals" /\ obs.fires > 0) => (obs.passes = 1 /\ ~obs.starved)

\* A second callback is dispatched, already overdue when the scheduler
\* reads the clock.
C11_Witness ==
  /\ pc = "timer_cb"
  /\ obs.prevFired # NoEvent
  /\ cur.time < obs.dispatchClock

\* C12: the SchedulerBreakout never leaves Run: a pass made by the delay
\* function, and no other, ends in a breakout, which Run catches, and Run
\* goes on with the signal checkpoint of the same iteration.
C12_BreakoutCaughtAtRun ==
  /\ exc # "SchedulerBreakout"
  /\ obs.broke => (pc = "signals" /\ sigIdx = 1 /\ obs.passes = 1)
  /\ obs.broke <=> (obs.passOf = "delay")

\* The checkpoint begins after a breakout that followed a dispatched
\* callback.
C12_Witness ==
  /\ pc = "signals"
  /\ obs.broke
  /\ obs.fires = 1

\* C13: once a timer callback, an I/O readiness handler or a signal observer
\* has raised, Run has ended with that exception: it takes no further step
\* of the pass, the checkpoint or the loop.
C13_RaiseEndsRun ==
  obs.raised => (pc = "raised" /\ exc # "none")

\* The number of calls of a function made by GenericMain so far.
CallCount(name) == Cardinality({i \in DOMAIN main.calls : main.calls[i] = name})

\* The position of the first call of a function, 0 when it was not called.
CallAt(name) ==
  IF CallCount(name) = 0 THEN 0
  ELSE CHOOSE i \in DOMAIN main.calls :
         main.calls[i] = name /\ \A j \in 1..(i - 1) : main.calls[j] # name

\* C14: once WritePidFile has completed, GenericMain ends, on every path,
\* with RemovePidFile called exactly once; RemovePidFile is never called
\* twice, nor without the PID file written; exec_fn is called after
\* WritePidFile and before RemovePidFile.
C14_PidFileRemovedOnce ==
  /\ CallCount("RemovePidFile") <= 1
  /\ CallCount("RemovePidFile") = 1 => CallCount("WritePidFile") = 1
  /\ main.pidHeld => (CallCount("WritePidFile") = 1 /\ CallCount("RemovePidFile") = 0)
  /\ main.pc = "end" => ~main.pidHeld
  /\ (main.pc = "end" /\ CallCount("SetupLogging") = 1) =>
       CallCount("RemovePidFile") = 1
  /\ CallCount("exec_fn") > 0 =>
       /\ 0 < CallAt("WritePidFile")
       /\ CallAt("WritePidFile") < CallAt("exec_fn")
       /\ CallCount("RemovePidFile") > 0 => CallAt("exec_fn") < CallAt("RemovePidFile")

\* GenericMain ends with the exception SetupLogging raised, the PID file
\* written and removed, exec_fn not called.
C14_Witness ==
  /\ main.pc = "end"
  /\ main.exit = "Error"
  /\ CallCount("exec_fn") = 0
  /\ CallCount("WritePidFile") = 1
  /\ CallCount("RemovePidFile") = 1

\* C15: with SSL enabled and a certificate or key option that is empty or
\* names no file, GenericMain reports the problem and exits with
\* constants.EXIT_FAILURE, before it calls anything else.
C15_SslFailureExits ==
  (SslBad(main) /\ main.pc # "ssl") =>
    /\ main.pc = "end"
    /\ main.reported
    /\ main.exit = "EXIT_FAILURE"
    /\ main.calls = <<>>

\* C16: with stop_on_empty false, no channel registered and no SIGTERM, an
\* event pending while Run loops, whose fire_time the clock can reach, is
\* eventually dispatched and its callback returns with Run still looping;
\* Run never ends, whatever timers have fired.
C16_TimerEventuallyFires ==
  /\ \A id \in 1..MaxEvents :
       (Looping /\ \E e \in queue : e.id = id /\ e.time <= MaxTime)
         ~> (id \in obs.firedIds /\ cur = NoEvent /\ Looping)
  /\ [](pc \notin {"done", "raised"})

\* The last pending event, entered with a positive delay, has fired, and Run
\* begins another iteration with an empty queue.
C16_Witness ==
  /\ pc = "branch"
  /\ queue = {}
  /\ channels = {}
  /\ obs.prevFired # NoEvent
  /\ obs.prevFired.time > 0

\* C17: observers are notified only when the iteration's scheduler run or
\* reactor pass is over, with the signal's latch still set; the k-th
\* observer notified for a latched signal is the k-th that registered, and
\* when the latch is about to be cleared every registered observer has been
\* notified exactly once.
C17_NotifyInRegistrationOrder ==
  /\ pc \in {"notify", "observer_cb", "clear"} =>
       /\ obs.passes = 1
       /\ ready = {} /\ cur = NoEvent /\ curChan = "none" /\ passKind = "none"
       /\ called[CurSig]
  /\ pc = "observer_cb" =>
       /\ signal_wait[ownerIdx] = ownerIdx
       /\ \A i \in 1..Len(signal_wait) :
            obs.calls[i] = IF i <= ownerIdx THEN 1 ELSE 0
  /\ pc = "notify" =>
       \A i \in 1..Len(signal_wait) : obs.calls[i] = IF i < ownerIdx THEN 1 ELSE 0
  /\ pc = "clear" =>
       \A i \in 1..Len(signal_wait) : obs.calls[i] = 1

\* The second observer registered is notified of a SIGCHLD, after the
\* first, in a run that has dispatched a timer callback.
C17_Witness ==
  /\ pc = "observer_cb"
  /\ ownerIdx = 2
  /\ CurSig = SIGCHLD
  /\ obs.calls[1] = 1
  /\ obs.prevFired # NoEvent

\* C18: an iteration makes exactly one reactor pass: none before the
\* scheduler run or the direct call, one from then on.  With events
\* pending the pass is the delay function's, with the time left until the
\* head's fire_time (0 after a dispatch), and it ends in the breakout;
\* with none pending it is the direct one, with the default timeout.
C18_OnePassPerIteration ==
  /\ pc \in {"branch", "timer_cb", "reactor"} => obs.passes = 0
  /\ pc \in {"dispatch", "io_cb", "signals", "notify", "observer_cb", "clear"} =>
       obs.passes = 1
  /\ pc = "reactor" => passKind \in {"direct", "delay"}
  /\ (pc = "reactor" /\ passKind = "direct") =>
       (queue = {} /\ obs.fires = 0 /\ timeout = DefaultTimeout)
  /\ (pc = "reactor" /\ passKind = "delay") =>
       IF obs.fires = 0
       THEN /\ timeout > 0
            /\ \E e \in Heads(queue) : e.time - now <= timeout /\ timeout <= e.time
       ELSE obs.fires = 1 /\ timeout = 0
  /\ obs.passOf = "delay" => obs.broke

\* An iteration has waited for the head's fire_time in its one pass, with
\* nothing dispatched, and reaches the checkpoint.
C18_Witness ==
  /\ pc = "signals"
  /\ obs.passOf = "delay"
  /\ obs.fires = 0
  /\ obs.passes = 1
  /\ queue # {}

\* C19 as stated: scheduler.run makes its interleaved wait only when it has
\* dispatched every event that was due.
C19_RunDispatchesAllDue ==
  (pc = "reactor" /\ passKind = "delay") => ~obs.dueLeft

\* C19 amended: one scheduler.run dispatches at most one event, the head of
\* the queue when it is due, and a zero-timeout pass follows that dispatch.
C19_RunDispatchesOneEvent ==
  /\ obs.fires <= 1
  /\ pc = "timer_cb" =>
       /\ obs.fires = 1
       /\ Due(cur, obs.dispatchClock)
       /\ \A f \in obs.pendingAtDispatch : ~Before(f, cur)
  /\ (pc = "reactor" /\ obs.fires = 1) => (passKind = "delay" /\ timeout = 0)

\* The pass that follows a dispatch begins while another event, due when
\* the scheduler read the clock, is still queued.
C19_Witness ==
  /\ pc = "reactor"
  /\ obs.dueLeft
  /\ obs.fires = 1

====
